---- MODULE Spec2Model ----
(***************************************************************************)
(* Options NER API: the entity-resolution pipeline of api.py               *)
(* (extract_options_data), the /extract and /health handlers with          *)
(* load_model, and the canonicalization tables built by train_model.py.    *)
(*                                                                         *)
(* A Python str is a sequence of one-character strings, so that lower(),   *)
(* upper(), the substring test `a in b`, int() and the regular expressions *)
(* are computed character by character.  An Optional value is <<>> (None)  *)
(* or <<v>>.  A dict is the sequence of its <<key, value>> items in        *)
(* insertion order, which is the order Python iterates it in.              *)
(***************************************************************************)
EXTENDS Integers, Sequences, FiniteSets, TLC

(***************************************************************************)
(* Python values                                                           *)
(***************************************************************************)
None == <<>>
Some(v) == <<v>>
IsNone(o) == o = <<>>
Val(o) == o[1]

Lowers == <<"a", "b", "c", "d", "e", "f", "g", "h", "i", "j", "k", "l", "m",
            "n", "o", "p", "q", "r", "s", "t", "u", "v", "w", "x", "y", "z">>
Uppers == <<"A", "B", "C", "D", "E", "F", "G", "H", "I", "J", "K", "L", "M",
            "N", "O", "P", "Q", "R", "S", "T", "U", "V", "W", "X", "Y", "Z">>
Digits == <<"0", "1", "2", "3", "4", "5", "6", "7", "8", "9">>

Range(s) == {s[i] : i \in DOMAIN s}
IndexOf(s, c) == CHOOSE i \in DOMAIN s : s[i] = c

\* str.lower() and str.upper(), character by character
LowerChar(c) == IF c \in Range(Uppers) THEN Lowers[IndexOf(Uppers, c)] ELSE c
UpperChar(c) == IF c \in Range(Lowers) THEN Uppers[IndexOf(Lowers, c)] ELSE c
Lower(s) == [i \in DOMAIN s |-> LowerChar(s[i])]
Upper(s) == [i \in DOMAIN s |-> UpperChar(s[i])]

\* the substring test `sub in s`
Contains(s, sub) ==
    \E i \in 0..(Len(s) - Len(sub)) : \A j \in DOMAIN sub : s[i + j] = sub[j]

IsDigit(c) == c \in Range(Digits)
IsSpace(c) == c = " "
\* \w of the re module
IsWordChar(c) == c \in Range(Lowers) \cup Range(Uppers) \cup Range(Digits) \cup {"_"}

DigitVal(c) == IndexOf(Digits, c) - 1
RECURSIVE DigitsToInt(_)
DigitsToInt(d) ==
    IF d = <<>> THEN 0
    ELSE 10 * DigitsToInt(SubSeq(d, 1, Len(d) - 1)) + DigitVal(d[Len(d)])

\* str.strip() as int() applies it to its argument
Strip(s) ==
    LET keep == {i \in DOMAIN s : ~IsSpace(s[i])}
    IN  IF keep = {} THEN <<>>
        ELSE LET lo == CHOOSE i \in keep : \A j \in keep : i <= j
                 hi == CHOOSE i \in keep : \A j \in keep : j <= i
             IN  SubSeq(s, lo, hi)

\* int(text): Some(n), or None where Python raises ValueError
IntParse(text) ==
    LET t == Strip(text)
        signed == t # <<>> /\ t[1] \in {"+", "-"}
        body == IF signed THEN SubSeq(t, 2, Len(t)) ELSE t
    IN  IF body # <<>> /\ \A i \in DOMAIN body : IsDigit(body[i])
        THEN Some(IF signed /\ t[1] = "-" THEN 0 - DigitsToInt(body)
                  ELSE DigitsToInt(body))
        ELSE None

\* ''.join(re.findall(r'\d+', text)): the digits of text, in order
RECURSIVE JoinDigitRuns(_)
JoinDigitRuns(text) ==
    IF text = <<>> THEN <<>>
    ELSE IF IsDigit(text[1]) THEN <<text[1]>> \o JoinDigitRuns(Tail(text))
    ELSE JoinDigitRuns(Tail(text))

\* \b between s[i] and s[i+1], for i in 0..Len(s)
WordBoundary(s, i) ==
    LET before == i >= 1 /\ IsWordChar(s[i])
        after == i + 1 <= Len(s) /\ IsWordChar(s[i + 1])
    IN  before # after

DigitsAt(s, i, k) ==
    i + k - 1 <= Len(s) /\ \A j \in i..(i + k - 1) : IsDigit(s[j])

\* StrikeMatchLen as it would be for the pattern \b(\d{4})\b
StrikeMatchLen_FourOnly(s, i) ==
    IF WordBoundary(s, i - 1) /\ DigitsAt(s, i, 4) /\ WordBoundary(s, i + 3)
    THEN 4 ELSE 0

\* StrikeMatchLen as it would be for the pattern \b(\d{4,5}), the closing \b lost
StrikeMatchLen_NoEndBoundary(s, i) ==
    IF ~WordBoundary(s, i - 1) THEN 0
    ELSE IF DigitsAt(s, i, 5) THEN 5
    ELSE IF DigitsAt(s, i, 4) THEN 4
    ELSE 0

\* length of the match of \b(\d{4,5})\b starting at s[i], 0 when there is none
\* (greedy: five digits are tried before four)
StrikeMatchLen(s, i) ==
    IF ~WordBoundary(s, i - 1) THEN 0
    ELSE IF DigitsAt(s, i, 5) /\ WordBoundary(s, i + 4) THEN 5
    ELSE IF DigitsAt(s, i, 4) /\ WordBoundary(s, i + 3) THEN 4
    ELSE 0

\* StrikeSearch as it would be if the last match were taken, not the first
StrikeSearch_Last(query) ==
    LET starts == {i \in DOMAIN query : StrikeMatchLen(query, i) > 0}
    IN  IF starts = {} THEN None
        ELSE LET i == CHOOSE a \in starts : \A b \in starts : b <= a
             IN  Some(SubSeq(query, i, i + StrikeMatchLen(query, i) - 1))

\* re.search(r'\b(\d{4,5})\b', query): group(1) of the leftmost match
StrikeSearch(query) ==
    LET starts == {i \in DOMAIN query : StrikeMatchLen(query, i) > 0}
    IN  IF starts = {} THEN None
        ELSE LET i == CHOOSE a \in starts : \A b \in starts : a <= b
             IN  Some(SubSeq(query, i, i + StrikeMatchLen(query, i) - 1))

(***************************************************************************)
(* dict operations on a sequence of <<key, value>> items                   *)
(***************************************************************************)
Keys(d) == {d[i][1] : i \in DOMAIN d}
Get(d, k) == d[CHOOSE i \in DOMAIN d : d[i][1] = k][2]
\* the first item, in iteration order, whose key is a substring of s; 0 if none
FirstKeyIn(d, s) ==
    LET hits == {i \in DOMAIN d : Contains(s, d[i][1])}
    IN  IF hits = {} THEN 0 ELSE CHOOSE i \in hits : \A j \in hits : i <= j

(***************************************************************************)
(* The words the tables, the priority phrases and the heuristics are       *)
(* spelled with; SP is the space character.                                *)
(***************************************************************************)
SP == <<" ">>
w_nifty == <<"n", "i", "f", "t", "y">>
w_bank == <<"b", "a", "n", "k">>
w_fin == <<"f", "i", "n">>
w_midcap == <<"m", "i", "d", "c", "a", "p">>
w_mid == <<"m", "i", "d">>
w_cap == <<"c", "a", "p">>
w_sensex == <<"s", "e", "n", "s", "e", "x">>
w_bse == <<"b", "s", "e">>
w_index == <<"i", "n", "d", "e", "x">>
w_banking == <<"b", "a", "n", "k", "i", "n", "g">>
w_financial == <<"f", "i", "n", "a", "n", "c", "i", "a", "l">>
w_ce == <<"c", "e">>
w_pe == <<"p", "e">>
w_call == <<"c", "a", "l", "l">>
w_put == <<"p", "u", "t">>
w_option == <<"o", "p", "t", "i", "o", "n">>
w_options == <<"o", "p", "t", "i", "o", "n", "s">>
w_contract == <<"c", "o", "n", "t", "r", "a", "c", "t">>
w_what == <<"w", "h", "a", "t">>
w_how == <<"h", "o", "w">>
w_trend == <<"t", "r", "e", "n", "d">>
w_analysis == <<"a", "n", "a", "l", "y", "s", "i", "s">>
w_status == <<"s", "t", "a", "t", "u", "s">>
w_50 == <<"5", "0">>
w_30 == <<"3", "0">>
NIFTY50 == <<"N", "I", "F", "T", "Y", "5", "0">>
BANKNIFTY == <<"B", "A", "N", "K", "N", "I", "F", "T", "Y">>
FINNIFTY == <<"F", "I", "N", "N", "I", "F", "T", "Y">>
MIDCAPNIFTY == <<"M", "I", "D", "C", "A", "P", "N", "I", "F", "T", "Y">>
SENSEX == <<"S", "E", "N", "S", "E", "X">>
CE == <<"C", "E">>
PE == <<"P", "E">>

(***************************************************************************)
(* train_model.py: the variation dictionaries and the mappers              *)
(***************************************************************************)
\* create_training_data: index_variations, as <<canonical, variants>> items
index_variations == <<
    <<NIFTY50, <<w_nifty, w_nifty \o SP \o w_50, w_nifty \o w_50,
                 w_nifty \o SP \o w_index, w_nifty \o SP \o w_50 \o SP \o w_index>> >>,
    <<BANKNIFTY, <<w_bank \o SP \o w_nifty, w_bank \o w_nifty, w_nifty \o SP \o w_bank,
                   w_banking \o SP \o w_index, w_bank \o SP \o w_index>> >>,
    <<FINNIFTY, <<w_fin \o SP \o w_nifty, w_fin \o w_nifty, w_nifty \o SP \o w_fin,
                  w_financial \o SP \o w_index, w_financial \o SP \o w_nifty>> >>,
    <<MIDCAPNIFTY, <<w_midcap \o SP \o w_nifty, w_nifty \o SP \o w_midcap, w_midcap,
                     w_midcap \o SP \o w_index, w_mid \o SP \o w_cap \o SP \o w_nifty>> >>,
    <<SENSEX, <<w_sensex, w_bse \o SP \o w_sensex, w_sensex \o SP \o w_index,
                w_bse \o SP \o w_30, w_sensex \o SP \o w_30>> >> >>

\* create_training_data: option_variations
option_variations == <<
    <<CE, <<w_ce, w_call, w_call \o SP \o w_option, w_call \o SP \o w_options,
            w_call \o SP \o w_option \o SP \o w_contract>> >>,
    <<PE, <<w_pe, w_put, w_put \o SP \o w_option, w_put \o SP \o w_options,
            w_put \o SP \o w_option \o SP \o w_contract>> >> >>

\* dict assignment d[k] = v: an existing key keeps its place, a new one is appended
Put(d, k, v) ==
    IF k \in Keys(d)
    THEN [i \in DOMAIN d |-> IF d[i][1] = k THEN <<k, v>> ELSE d[i]]
    ELSE Append(d, <<k, v>>)

\* the loops of create_entity_mappers: mapper[variant.lower()] = canonical
RECURSIVE AddVariants(_, _, _)
AddVariants(d, canonical, variants) ==
    IF variants = <<>> THEN d
    ELSE AddVariants(Put(d, Lower(Head(variants)), canonical), canonical, Tail(variants))

RECURSIVE FlattenVariations(_, _)
FlattenVariations(d, variations) ==
    IF variations = <<>> THEN d
    ELSE FlattenVariations(AddVariants(d, Head(variations)[1], Head(variations)[2]),
                           Tail(variations))

\* the dict literals that create_entity_mappers assigns after its loops
default_index_mapper == <<
    <<w_nifty, NIFTY50>>,
    <<w_nifty \o SP \o w_50, NIFTY50>>,
    <<w_nifty \o w_50, NIFTY50>>,
    <<w_nifty \o SP \o w_index, NIFTY50>>,
    <<w_nifty \o SP \o w_50 \o SP \o w_index, NIFTY50>>,
    <<w_bank \o SP \o w_nifty, BANKNIFTY>>,
    <<w_bank \o w_nifty, BANKNIFTY>>,
    <<w_nifty \o SP \o w_bank, BANKNIFTY>>,
    <<w_banking \o SP \o w_index, BANKNIFTY>>,
    <<w_bank \o SP \o w_index, BANKNIFTY>>,
    <<w_fin \o SP \o w_nifty, FINNIFTY>>,
    <<w_fin \o w_nifty, FINNIFTY>>,
    <<w_nifty \o SP \o w_fin, FINNIFTY>>,
    <<w_financial \o SP \o w_index, FINNIFTY>>,
    <<w_financial \o SP \o w_nifty, FINNIFTY>>,
    <<w_midcap \o SP \o w_nifty, MIDCAPNIFTY>>,
    <<w_nifty \o SP \o w_midcap, MIDCAPNIFTY>>,
    <<w_midcap, MIDCAPNIFTY>>,
    <<w_midcap \o SP \o w_index, MIDCAPNIFTY>>,
    <<w_mid \o SP \o w_cap \o SP \o w_nifty, MIDCAPNIFTY>> >>

default_option_mapper == <<
    <<w_ce, CE>>,
    <<w_call, CE>>,
    <<w_call \o SP \o w_option, CE>>,
    <<w_call \o SP \o w_options, CE>>,
    <<w_call \o SP \o w_option \o SP \o w_contract, CE>>,
    <<w_pe, PE>>,
    <<w_put, PE>>,
    <<w_put \o SP \o w_option, PE>>,
    <<w_put \o SP \o w_options, PE>>,
    <<w_put \o SP \o w_option \o SP \o w_contract, PE>> >>

\* create_entity_mappers: the loops fill the two dicts, then the literals
\* replace them; the pair <<index_mapper, option_mapper>> is returned
create_entity_mappers(index_vars, option_vars) ==
    LET looped_index == FlattenVariations(<<>>, index_vars)
        looped_option == FlattenVariations(<<>>, option_vars)
        index_mapper_ == default_index_mapper
        option_mapper_ == default_option_mapper
    IN  <<index_mapper_, option_mapper_>>

(***************************************************************************)
(* api.py: extract_options_data, stage by stage.  A result is the dict     *)
(* {"index", "strikePrice", "strikeType"} with Optional fields; a span of  *)
(* doc.ents is the pair <<text, label>>.                                   *)
(***************************************************************************)
Labels == {"INDEX", "STRIKE_PRICE", "OPTION_TYPE"}

\* the result dict as it is initialised
EmptyResult == [index |-> None, strikePrice |-> None, strikeType |-> None]

\* `None in result.values()`
HasNone(result) ==
    IsNone(result.index) \/ IsNone(result.strikePrice) \/ IsNone(result.strikeType)

\* ResolveIndexEnt without the substring scan: the lowercased text is looked up
\* as it is
ResolveIndexEnt_NoRepair(text, im) ==
    IF Lower(text) \in Keys(im) THEN Get(im, Lower(text)) ELSE Upper(text)

\* the INDEX branch of the span loop: the value stored in result["index"]
ResolveIndexEnt(text, im) ==
    LET lowered == Lower(text)
        k == FirstKeyIn(im, lowered)
        index_text == IF k # 0 THEN im[k][1] ELSE lowered
    IN  IF index_text \in Keys(im) THEN Get(im, index_text) ELSE Upper(text)

\* the STRIKE_PRICE branch: Some(n) when result["strikePrice"] is assigned
ResolveStrikeEnt(text) ==
    LET parsed == IntParse(text)
        numbers == JoinDigitRuns(text)
    IN  IF ~IsNone(parsed) THEN parsed
        ELSE IF numbers # <<>> THEN Some(DigitsToInt(numbers))
        ELSE None

\* the OPTION_TYPE branch: the value stored in result["strikeType"]
ResolveOptionEnt(text, om) ==
    LET option_text == Lower(text)
    IN  IF option_text \in Keys(om) THEN Get(om, option_text) ELSE Upper(text)

\* ProcessEnt as it would be if a field were written only while it is None
ProcessEnt_FirstWins(result, text, label, im, om) ==
    IF label = "INDEX" /\ IsNone(result.index)
    THEN [result EXCEPT !.index = Some(ResolveIndexEnt(text, im))]
    ELSE IF label = "STRIKE_PRICE" /\ IsNone(result.strikePrice)
    THEN LET parsed == ResolveStrikeEnt(text)
         IN  IF IsNone(parsed) THEN result
             ELSE [result EXCEPT !.strikePrice = parsed]
    ELSE IF label = "OPTION_TYPE" /\ IsNone(result.strikeType)
    THEN [result EXCEPT !.strikeType = Some(ResolveOptionEnt(text, om))]
    ELSE result

\* one iteration of `for ent in doc.ents`
ProcessEnt(result, text, label, im, om) ==
    IF label = "INDEX"
    THEN [result EXCEPT !.index = Some(ResolveIndexEnt(text, im))]
    ELSE IF label = "STRIKE_PRICE"
    THEN LET parsed == ResolveStrikeEnt(text)
         IN  IF IsNone(parsed) THEN result
             ELSE [result EXCEPT !.strikePrice = parsed]
    ELSE IF label = "OPTION_TYPE"
    THEN [result EXCEPT !.strikeType = Some(ResolveOptionEnt(text, om))]
    ELSE result

\* the whole span loop: after[i] is the result after the first i spans
ProcessEnts(result, ents, im, om) ==
    LET after[i \in 0..Len(ents)] ==
            IF i = 0 THEN result
            ELSE ProcessEnt(after[i - 1], ents[i][1], ents[i][2], im, om)
    IN  after[Len(ents)]

\* the priority_indices dict, in the order it is written
priority_indices == <<
    <<w_bank \o w_nifty, BANKNIFTY>>,
    <<w_bank \o SP \o w_nifty, BANKNIFTY>>,
    <<w_fin \o w_nifty, FINNIFTY>>,
    <<w_fin \o SP \o w_nifty, FINNIFTY>>,
    <<w_midcap, MIDCAPNIFTY>>,
    <<w_midcap \o SP \o w_nifty, MIDCAPNIFTY>>,
    <<w_sensex, SENSEX>> >>

\* ScanIndex as it would be with index_mapper scanned ahead of priority_indices
ScanIndex_TableFirst(query_lower, im) ==
    LET p == FirstKeyIn(priority_indices, query_lower)
        k == FirstKeyIn(im, query_lower)
    IN  IF k # 0 THEN Some(im[k][2])
        ELSE IF p # 0 THEN Some(priority_indices[p][2])
        ELSE None

\* the two scans for an index in the lowercased query: priority_indices first,
\* index_mapper only when no priority phrase is found; None when neither hits
ScanIndex(query_lower, im) ==
    LET p == FirstKeyIn(priority_indices, query_lower)
        k == FirstKeyIn(im, query_lower)
    IN  IF p # 0 THEN Some(priority_indices[p][2])
        ELSE IF k # 0 THEN Some(im[k][2])
        ELSE None

\* fallback 1: the index
FallbackIndex(result, query_lower, im) ==
    IF IsNone(result.index) /\ ~IsNone(ScanIndex(query_lower, im))
    THEN [result EXCEPT !.index = ScanIndex(query_lower, im)]
    ELSE result

\* FallbackStrike without the test `result["strikePrice"] is None`
FallbackStrike_Always(result, query) ==
    IF ~IsNone(StrikeSearch(query))
    THEN [result EXCEPT !.strikePrice = Some(DigitsToInt(Val(StrikeSearch(query))))]
    ELSE result

\* fallback 2: the strike price, searched in the query as given
FallbackStrike(result, query) ==
    IF IsNone(result.strikePrice) /\ ~IsNone(StrikeSearch(query))
    THEN [result EXCEPT !.strikePrice = Some(DigitsToInt(Val(StrikeSearch(query))))]
    ELSE result

\* OptionPattern as it would be if only " ce " and " pe ", with a space on
\* both sides, were looked for besides "call" and "put"
OptionPattern_BothSpaces(query_lower) ==
    IF Contains(query_lower, w_call) \/ Contains(query_lower, SP \o w_ce \o SP)
    THEN Some(CE)
    ELSE IF Contains(query_lower, w_put) \/ Contains(query_lower, SP \o w_pe \o SP)
    THEN Some(PE)
    ELSE None

\* the "common patterns" of fallback 3
OptionPattern(query_lower) ==
    IF \/ Contains(query_lower, w_call)
       \/ Contains(query_lower, SP \o w_ce)
       \/ Contains(query_lower, w_ce \o SP)
       \/ Contains(query_lower, SP \o w_ce \o SP)
    THEN Some(CE)
    ELSE IF \/ Contains(query_lower, w_put)
            \/ Contains(query_lower, SP \o w_pe)
            \/ Contains(query_lower, w_pe \o SP)
            \/ Contains(query_lower, SP \o w_pe \o SP)
    THEN Some(PE)
    ELSE None

\* fallback 3: the option type, option_mapper first and the patterns after it
FallbackOption(result, query_lower, om) ==
    IF ~IsNone(result.strikeType) THEN result
    ELSE LET k == FirstKeyIn(om, query_lower)
         IN  IF k # 0 THEN [result EXCEPT !.strikeType = Some(om[k][2])]
             ELSE [result EXCEPT !.strikeType = OptionPattern(query_lower)]

\* the body of `if None in result.values():`
Fallbacks(result, query, im, om) ==
    FallbackOption(
        FallbackStrike(FallbackIndex(result, Lower(query), im), query),
        Lower(query), om)

\* `result["index"] and " " in result["index"]`
SpacedIndex(result) ==
    /\ ~IsNone(result.index)
    /\ Val(result.index) # <<>>
    /\ Contains(Val(result.index), SP)

\* the body of the "problematic patterns" branch
Cleanup(result, query_lower, im) ==
    IF ~IsNone(ScanIndex(query_lower, im))
    THEN [result EXCEPT !.index = ScanIndex(query_lower, im)]
    ELSE result

\* FinalCheck with its last test lost: no correction to SENSEX
FinalCheck_NoSensex(result, query_lower) ==
    IF result.index # Some(NIFTY50) THEN result
    ELSE IF Contains(query_lower, w_bank \o w_nifty)
            \/ Contains(query_lower, w_bank \o SP \o w_nifty)
    THEN [result EXCEPT !.index = Some(BANKNIFTY)]
    ELSE IF Contains(query_lower, w_fin \o w_nifty)
            \/ Contains(query_lower, w_fin \o SP \o w_nifty)
    THEN [result EXCEPT !.index = Some(FINNIFTY)]
    ELSE IF Contains(query_lower, w_midcap)
    THEN [result EXCEPT !.index = Some(MIDCAPNIFTY)]
    ELSE result

\* FinalCheck with its tests in the opposite order: sensex first, banknifty last
FinalCheck_SensexFirst(result, query_lower) ==
    IF result.index # Some(NIFTY50) THEN result
    ELSE IF Contains(query_lower, w_sensex)
    THEN [result EXCEPT !.index = Some(SENSEX)]
    ELSE IF Contains(query_lower, w_midcap)
    THEN [result EXCEPT !.index = Some(MIDCAPNIFTY)]
    ELSE IF Contains(query_lower, w_fin \o w_nifty)
            \/ Contains(query_lower, w_fin \o SP \o w_nifty)
    THEN [result EXCEPT !.index = Some(FINNIFTY)]
    ELSE IF Contains(query_lower, w_bank \o w_nifty)
            \/ Contains(query_lower, w_bank \o SP \o w_nifty)
    THEN [result EXCEPT !.index = Some(BANKNIFTY)]
    ELSE result

\* FinalCheck with its first test lost: no correction to BANKNIFTY
FinalCheck_NoBankCheck(result, query_lower) ==
    IF result.index # Some(NIFTY50) THEN result
    ELSE IF Contains(query_lower, w_fin \o w_nifty)
            \/ Contains(query_lower, w_fin \o SP \o w_nifty)
    THEN [result EXCEPT !.index = Some(FINNIFTY)]
    ELSE IF Contains(query_lower, w_midcap)
    THEN [result EXCEPT !.index = Some(MIDCAPNIFTY)]
    ELSE IF Contains(query_lower, w_sensex)
    THEN [result EXCEPT !.index = Some(SENSEX)]
    ELSE result

\* the final check on NIFTY50
FinalCheck(result, query_lower) ==
    IF result.index # Some(NIFTY50) THEN result
    ELSE IF Contains(query_lower, w_bank \o w_nifty)
            \/ Contains(query_lower, w_bank \o SP \o w_nifty)
    THEN [result EXCEPT !.index = Some(BANKNIFTY)]
    ELSE IF Contains(query_lower, w_fin \o w_nifty)
            \/ Contains(query_lower, w_fin \o SP \o w_nifty)
    THEN [result EXCEPT !.index = Some(FINNIFTY)]
    ELSE IF Contains(query_lower, w_midcap)
    THEN [result EXCEPT !.index = Some(MIDCAPNIFTY)]
    ELSE IF Contains(query_lower, w_sensex)
    THEN [result EXCEPT !.index = Some(SENSEX)]
    ELSE result

\* what a call produces: a returned dict or an exception
Returned(result) == [exc |-> None, result |-> Some(result)]
Raised(name) == [exc |-> Some(name), result |-> None]

\* extract_options_data(query), given the spans the recognizer emits for it;
\* at[1..4] are the values of `result` after the span loop, the fallbacks, the
\* spaced-index branch and the final check.  query_lower is bound only inside
\* `if None in result.values():`, so the spaced-index branch reads an unbound
\* local when no field was None after the loop.
extract_options_data(q, ents, im, om) ==
    LET at[i \in 1..4] ==
            IF i = 1 THEN ProcessEnts(EmptyResult, ents, im, om)
            ELSE IF i = 2
            THEN IF HasNone(at[1]) THEN Fallbacks(at[1], q, im, om) ELSE at[1]
            ELSE IF i = 3
            THEN IF SpacedIndex(at[2]) THEN Cleanup(at[2], Lower(q), im) ELSE at[2]
            ELSE FinalCheck(at[3], Lower(q))
    IN  IF SpacedIndex(at[2]) /\ ~HasNone(at[1]) THEN Raised("UnboundLocalError")
        ELSE Returned(at[4])

(***************************************************************************)
(* api.py: similar_pattern.  Each pattern is a chain of groups joined by   *)
(* `.*`; a group is a set of alternative words, or {} for \d{4,5}.         *)
(***************************************************************************)
g_ask == {w_what, w_how}
g_topic == {w_trend, w_analysis, w_status}
g_index == {w_nifty, w_bank \o w_nifty, w_fin \o w_nifty, w_midcap}
g_digits == {}
g_option == {w_call, w_put, w_ce, w_pe}

patterns == <<
    <<g_ask, g_topic, g_index, g_digits, g_option>>,
    <<g_topic, g_index, g_digits, g_option>>,
    <<g_index, g_digits, g_option, g_topic>> >>

\* the lengths a group can match at s[i]
GroupMatchLens(s, i, group) ==
    IF group = g_digits
    THEN {k \in {4, 5} : DigitsAt(s, i, k)}
    ELSE {Len(w) : w \in {v \in group :
              i + Len(v) - 1 <= Len(s) /\ SubSeq(s, i, i + Len(v) - 1) = v}}

\* `.*` matches s[a..b]: no newline in it
DotStar(s, a, b) == \A j \in a..b : s[j] # "\n"

\* the chain matches with its first group at some position after `from`;
\* `gap` tells whether a `.*` precedes the group
RECURSIVE ChainMatches(_, _, _, _)
ChainMatches(s, from, chain, gap) ==
    IF chain = <<>> THEN TRUE
    ELSE \E i \in (from + 1)..Len(s) :
            /\ gap => DotStar(s, from + 1, i - 1)
            /\ \E k \in GroupMatchLens(s, i, Head(chain)) :
                  ChainMatches(s, i + k - 1, Tail(chain), TRUE)

\* any(re.search(pattern, query, re.IGNORECASE) for pattern in patterns)
similar_pattern(q) ==
    \E n \in DOMAIN patterns :
        \E start \in 0..Len(q) : ChainMatches(Lower(q), start, patterns[n], TRUE) \/
                                 ChainMatches(Lower(q), start, patterns[n], FALSE)

(***************************************************************************)
(* Inputs: the queries of test_api.py and of the documented scenarios,     *)
(* with variants around each rule; the span texts a recognizer may emit;   *)
(* the tables a models/spacy directory may hold.                           *)
(***************************************************************************)
\* "hello there"
q_none ==
    <<"h", "e", "l", "l", "o", " ", "t", "h", "e", "r", "e">>
\* "How is bank nifty 40000 pe doing today?"
q_e2e ==
    <<"H", "o", "w", " ", "i", "s", " ", "b", "a", "n", "k", " ", "n", "i",
      "f", "t", "y", " ", "4", "0", "0", "0", "0", " ", "p", "e", " ", "d",
      "o", "i", "n", "g", " ", "t", "o", "d", "a", "y", "?">>
\* "bank nifty 35000 put"
q_prio ==
    <<"b", "a", "n", "k", " ", "n", "i", "f", "t", "y", " ", "3", "5", "0",
      "0", "0", " ", "p", "u", "t">>
\* "what is the trend of nifty 23600 call option"
q_trend ==
    <<"w", "h", "a", "t", " ", "i", "s", " ", "t", "h", "e", " ", "t", "r",
      "e", "n", "d", " ", "o", "f", " ", "n", "i", "f", "t", "y", " ", "2",
      "3", "6", "0", "0", " ", "c", "a", "l", "l", " ", "o", "p", "t", "i",
      "o", "n">>
\* "nifty 17500 pe premium"
q_strike ==
    <<"n", "i", "f", "t", "y", " ", "1", "7", "5", "0", "0", " ", "p", "e",
      " ", "p", "r", "e", "m", "i", "u", "m">>
\* "Should I buy midcap nifty 30000 CE?"
q_midcap ==
    <<"S", "h", "o", "u", "l", "d", " ", "I", " ", "b", "u", "y", " ", "m",
      "i", "d", "c", "a", "p", " ", "n", "i", "f", "t", "y", " ", "3", "0",
      "0", "0", "0", " ", "C", "E", "?">>
\* "sensex 60000 pe"
q_sensex ==
    <<"s", "e", "n", "s", "e", "x", " ", "6", "0", "0", "0", "0", " ", "p",
      "e">>
\* "Price trend of banknifty 35000 put"
q_banknifty ==
    <<"P", "r", "i", "c", "e", " ", "t", "r", "e", "n", "d", " ", "o", "f",
      " ", "b", "a", "n", "k", "n", "i", "f", "t", "y", " ", "3", "5", "0",
      "0", "0", " ", "p", "u", "t">>
\* "finnifty put option 20000"
q_finnifty ==
    <<"f", "i", "n", "n", "i", "f", "t", "y", " ", "p", "u", "t", " ", "o",
      "p", "t", "i", "o", "n", " ", "2", "0", "0", "0", "0">>
\* "nifty bank 40000 pe"
q_niftybank ==
    <<"n", "i", "f", "t", "y", " ", "b", "a", "n", "k", " ", "4", "0", "0",
      "0", "0", " ", "p", "e">>
\* "nifty 18500 price"
q_price ==
    <<"n", "i", "f", "t", "y", " ", "1", "8", "5", "0", "0", " ", "p", "r",
      "i", "c", "e">>
\* "nifty 18500 put price"
q_putprice ==
    <<"n", "i", "f", "t", "y", " ", "1", "8", "5", "0", "0", " ", "p", "u",
      "t", " ", "p", "r", "i", "c", "e">>
\* "nifty 123 pe"
q_short ==
    <<"n", "i", "f", "t", "y", " ", "1", "2", "3", " ", "p", "e">>
\* "nifty40000 pe"
q_glued ==
    <<"n", "i", "f", "t", "y", "4", "0", "0", "0", "0", " ", "p", "e">>
\* "nifty 1750 or 40000 ce"
q_two ==
    <<"n", "i", "f", "t", "y", " ", "1", "7", "5", "0", " ", "o", "r", " ",
      "4", "0", "0", "0", "0", " ", "c", "e">>
\* "sensex or fin nifty or bank nifty 40000 ce"
q_multi ==
    <<"s", "e", "n", "s", "e", "x", " ", "o", "r", " ", "f", "i", "n", " ",
      "n", "i", "f", "t", "y", " ", "o", "r", " ", "b", "a", "n", "k", " ",
      "n", "i", "f", "t", "y", " ", "4", "0", "0", "0", "0", " ", "c", "e">>
\* "dow jones 40000 ce"
q_dow ==
    <<"d", "o", "w", " ", "j", "o", "n", "e", "s", " ", "4", "0", "0", "0",
      "0", " ", "c", "e">>
\* "BANKNIFTY 35000 PE"
q_upper ==
    <<"B", "A", "N", "K", "N", "I", "F", "T", "Y", " ", "3", "5", "0", "0",
      "0", " ", "P", "E">>
\* "nifty 123456 ce"
q_six ==
    <<"n", "i", "f", "t", "y", " ", "1", "2", "3", "4", "5", "6", " ", "c",
      "e">>

\* "dow jones 123456"
q_long ==
    <<"d", "o", "w", " ", "j", "o", "n", "e", "s", " ", "1", "2", "3", "4", "5", "6">>

\* "nifty 18500 pe price now"
q_both ==
    <<"n", "i", "f", "t", "y", " ", "1", "8", "5", "0", "0", " ", "p", "e", " ", "p", "r", "i", "c", "e", " ", "n", "o", "w">>

Queries == {q_none, q_e2e, q_prio, q_trend, q_strike,
            q_midcap, q_sensex, q_banknifty, q_finnifty, q_niftybank,
            q_price, q_putprice, q_short, q_glued, q_two,
            q_multi, q_dow, q_upper, q_six, q_long, q_both}

\* "bank nifty"
t_bank_nifty ==
    <<"b", "a", "n", "k", " ", "n", "i", "f", "t", "y">>
\* "nifty bank"
t_nifty_bank ==
    <<"n", "i", "f", "t", "y", " ", "b", "a", "n", "k">>
\* "sensex sd"
t_sensex_sd ==
    <<"s", "e", "n", "s", "e", "x", " ", "s", "d">>
\* "40000"
t_40000 ==
    <<"4", "0", "0", "0", "0">>
\* "pe"
t_pe ==
    <<"p", "e">>
\* "17,500"
t_17_500 ==
    <<"1", "7", ",", "5", "0", "0">>

EntTexts == {t_bank_nifty, t_nifty_bank, t_sensex_sd, t_40000, t_pe, t_17_500}

\* the mappers train_model.py saves
trained_mappers == create_entity_mappers(index_variations, option_variations)
\* the mappers its loops build from the variation dictionaries
variation_mappers ==
    <<FlattenVariations(<<>>, index_variations), FlattenVariations(<<>>, option_variations)>>
\* mappers saved by some other training run
other_mappers ==
    << << <<w_sensex \o SP \o w_30, SENSEX>>, <<w_sensex, SENSEX>>,
          <<w_nifty \o SP \o w_50, NIFTY50>>, <<w_nifty, NIFTY50>> >>,
       << <<w_call \o SP \o w_option, CE>>, <<w_put \o SP \o w_option, PE>> >> >>

Mappers == {trained_mappers, variation_mappers, other_mappers}

\* the calls: every query with the trained mappers, some with the others
Inputs ==
    (Queries \X {trained_mappers})
    \cup ({q_none, q_sensex, q_multi, q_dow} \X {variation_mappers})
    \cup ({q_long, q_sensex, q_prio, q_strike, q_price, q_two, q_both} \X {other_mappers})

(***************************************************************************)
(* State                                                                   *)
(***************************************************************************)
VARIABLES
    spacy_model,    \* api.py global: None or the loaded model
    index_mapper,   \* api.py global
    option_mapper,  \* api.py global
    model_loaded,   \* api.py global
    started,        \* whether the startup event has run
    request,        \* the request being answered, or answered last
    response,       \* the answer to it
    probe,          \* what answering it did: load_model calls, entry of the core
    ref,            \* an earlier call of extract_options_data: its inputs and
                    \* its answer, kept to compare later calls with
    query,          \* extract_options_data: its argument
    doc,            \* extract_options_data: the spans of doc.ents still to visit
    seen,           \* the text of the last span visited, per label
    result,         \* extract_options_data: its local `result`
    query_lower,    \* extract_options_data: its local, None while unbound
    pc,             \* extract_options_data: the statement it is at
    stages          \* the values `result` had after the span loop, the fallbacks
                    \* and the spaced-index branch, in that order

globals == <<spacy_model, index_mapper, option_mapper, model_loaded>>
server == <<started, request, response, probe, ref>>
locals == <<query, doc, seen, result, query_lower, pc, stages>>
vars == <<globals, server, locals>>

NoRequest == [endpoint |-> "none", query |-> <<>>, ents |-> <<>>]
NoResponse == [status |-> 0, detail |-> "", result |-> None]
NoProbe == [loads |-> 0, core |-> FALSE, loaded_at_core |-> FALSE]
NoSeen == [l \in Labels |-> None]

(***************************************************************************)
(* api.py: load_model                                                      *)
(***************************************************************************)
\* how far a load_model call gets: what is missing or raises on the way
LoadOutcomes == {"no_model", "model_error", "no_index", "index_error",
                 "no_option", "option_error", "test_error", "ok"}

\* load_model as it would be with `model_loaded = True` placed right after the
\* recognizer model is loaded, ahead of the two mapper files
load_model_EarlyFlag(outcome, files) ==
    LET got_model == outcome \notin {"no_model", "model_error"}
        got_index == got_model /\ outcome \notin {"no_index", "index_error"}
        got_option == got_index /\ outcome \notin {"no_option", "option_error"}
    IN  [spacy_model |-> IF got_model THEN Some("nlp") ELSE spacy_model,
         index_mapper |-> IF got_index THEN files[1] ELSE index_mapper,
         option_mapper |-> IF got_option THEN files[2] ELSE option_mapper,
         model_loaded |-> IF got_model THEN TRUE ELSE model_loaded,
         returns |-> outcome = "ok"]

\* load_model as it would be if its failure paths returned True as well
load_model_AlwaysTrue(outcome, files) ==
    LET got_model == outcome \notin {"no_model", "model_error"}
        got_index == got_model /\ outcome \notin {"no_index", "index_error"}
        got_option == got_index /\ outcome \notin {"no_option", "option_error"}
    IN  [spacy_model |-> IF got_model THEN Some("nlp") ELSE spacy_model,
         index_mapper |-> IF got_index THEN files[1] ELSE index_mapper,
         option_mapper |-> IF got_option THEN files[2] ELSE option_mapper,
         model_loaded |-> IF outcome = "ok" THEN TRUE ELSE model_loaded,
         returns |-> TRUE]

\* load_model(): the globals after the call and the value it returns, when
\* the files hold the mappers `files` and the call ends as `outcome`
load_model(outcome, files) ==
    LET got_model == outcome \notin {"no_model", "model_error"}
        got_index == got_model /\ outcome \notin {"no_index", "index_error"}
        got_option == got_index /\ outcome \notin {"no_option", "option_error"}
    IN  [spacy_model |-> IF got_model THEN Some("nlp") ELSE spacy_model,
         index_mapper |-> IF got_index THEN files[1] ELSE index_mapper,
         option_mapper |-> IF got_option THEN files[2] ELSE option_mapper,
         model_loaded |-> IF outcome = "ok" THEN TRUE ELSE model_loaded,
         returns |-> outcome = "ok"]

SetGlobals(g) ==
    /\ spacy_model' = g.spacy_model
    /\ index_mapper' = g.index_mapper
    /\ option_mapper' = g.option_mapper
    /\ model_loaded' = g.model_loaded

(***************************************************************************)
(* The statements of extract_options_data                                  *)
(***************************************************************************)
\* the entry as it would be with `result` a module-level dict that is not
\* initialised again: the fields of the call before stay
EnterCore_KeepsResult(q, ents) ==
    /\ query' = q
    /\ doc' = ents
    /\ seen' = NoSeen
    /\ result' = result
    /\ query_lower' = None
    /\ stages' = <<>>
    /\ pc' = "ents"

\* entry: doc = spacy_model(query), the result dict is initialised
EnterCore(q, ents) ==
    /\ query' = q
    /\ doc' = ents
    /\ seen' = NoSeen
    /\ result' = EmptyResult
    /\ query_lower' = None
    /\ stages' = <<>>
    /\ pc' = "ents"

\* one iteration of `for ent in doc.ents`, on the next span of doc
NextEnt ==
    /\ pc = "ents"
    /\ doc # <<>>
    /\ result' = ProcessEnt(result, Head(doc)[1], Head(doc)[2],
                            index_mapper, option_mapper)
    /\ seen' = [seen EXCEPT ![Head(doc)[2]] = Some(Head(doc)[1])]
    /\ doc' = Tail(doc)
    /\ UNCHANGED <<globals, server, query, query_lower, pc, stages>>

\* one iteration of `for ent in doc.ents` when the recognizer is left open:
\* the span it emits next has any text and any label
OracleEnt ==
    /\ pc = "ents"
    /\ \E text \in EntTexts, label \in Labels :
          /\ result' = ProcessEnt(result, text, label, index_mapper, option_mapper)
          /\ seen' = [seen EXCEPT ![label] = Some(text)]
    /\ UNCHANGED <<globals, server, query, doc, query_lower, pc, stages>>

\* the loop ends; `if None in result.values():` and its body
RunFallbacks ==
    /\ pc = "ents"
    /\ doc = <<>>
    /\ IF HasNone(result)
       THEN /\ query_lower' = Some(Lower(query))
            /\ result' = Fallbacks(result, query, index_mapper, option_mapper)
       ELSE UNCHANGED <<query_lower, result>>
    /\ stages' = <<result, result'>>
    /\ pc' = "cleanup"
    /\ UNCHANGED <<globals, server, query, doc, seen>>

\* the spaced-index branch, entered with query_lower bound
RunCleanup ==
    /\ pc = "cleanup"
    /\ SpacedIndex(result) => ~IsNone(query_lower)
    /\ result' = IF SpacedIndex(result)
                 THEN Cleanup(result, Val(query_lower), index_mapper)
                 ELSE result
    /\ stages' = Append(stages, result')
    /\ pc' = "final"
    /\ UNCHANGED <<globals, server, query, doc, seen, query_lower>>

\* the spaced-index branch, entered with query_lower unbound: the read of
\* query_lower raises UnboundLocalError and the call ends without a result
CleanupRaises ==
    /\ pc = "cleanup"
    /\ SpacedIndex(result)
    /\ IsNone(query_lower)
    /\ pc' = "raised"
    /\ UNCHANGED <<globals, server, query, doc, seen, result, query_lower, stages>>

\* the final check and `return result`
RunFinalCheck ==
    /\ pc = "final"
    /\ query_lower' = Some(Lower(query))
    /\ result' = FinalCheck(result, Lower(query))
    /\ pc' = "returned"
    /\ UNCHANGED <<globals, server, query, doc, seen, stages>>

(***************************************************************************)
(* SpecCore: extract_options_data called on loaded mappers, the recognizer *)
(* left open                                                               *)
(***************************************************************************)
InitCore ==
    /\ spacy_model = Some("nlp")
    /\ model_loaded = TRUE
    /\ \E in \in Inputs :
          /\ query = in[1]
          /\ index_mapper = in[2][1]
          /\ option_mapper = in[2][2]
    /\ doc = <<>>
    /\ seen = NoSeen
    /\ result = EmptyResult
    /\ query_lower = None
    /\ pc = "ents"
    /\ stages = <<>>
    /\ started = TRUE
    /\ request = NoRequest
    /\ response = NoResponse
    /\ probe = NoProbe
    /\ ref = None

NextCore == OracleEnt \/ RunFallbacks \/ RunCleanup \/ CleanupRaises \/ RunFinalCheck

SpecCore == InitCore /\ [][NextCore]_vars

(***************************************************************************)
(* Spec: the server.  A handler has no await in it, so it runs to its end  *)
(* before another starts: the handlers start at pc = "idle" only, and the  *)
(* statements of extract_options_data are the steps of /extract.           *)
(***************************************************************************)
\* the requests: queries, each with the spans the recognizer emits for it
ServerQueries == {<<>>, q_none, q_prio, q_trend}
ServerEnts == {
    <<>>,
    <<<<t_pe, "OPTION_TYPE">>>>,
    <<<<t_sensex_sd, "INDEX">>, <<t_40000, "STRIKE_PRICE">>, <<t_pe, "OPTION_TYPE">>>> }

Init ==
    /\ spacy_model = None
    /\ index_mapper = <<>>
    /\ option_mapper = <<>>
    /\ model_loaded = FALSE
    /\ started = FALSE
    /\ request = NoRequest
    /\ response = NoResponse
    /\ probe = NoProbe
    /\ ref = None
    /\ query = <<>>
    /\ doc = <<>>
    /\ seen = NoSeen
    /\ result = EmptyResult
    /\ query_lower = None
    /\ pc = "idle"
    /\ stages = <<>>

\* startup_event: one load_model call before any request is served
Startup ==
    /\ ~started
    /\ started' = TRUE
    /\ \E outcome \in LoadOutcomes, files \in Mappers :
          SetGlobals(load_model(outcome, files))
    /\ request' = [NoRequest EXCEPT !.endpoint = "startup"]
    /\ response' = NoResponse
    /\ probe' = [NoProbe EXCEPT !.loads = 1]
    /\ UNCHANGED <<locals, ref>>

\* GET /health
health_check ==
    /\ started
    /\ pc = "idle"
    /\ request' = [NoRequest EXCEPT !.endpoint = "health"]
    /\ response' = IF ~model_loaded
                   THEN [status |-> 503, detail |-> "Model not loaded", result |-> None]
                   ELSE [status |-> 200, detail |-> "healthy", result |-> None]
    /\ probe' = NoProbe
    /\ UNCHANGED <<globals, locals, started, ref>>

\* POST /extract with query q, up to the call of extract_options_data; the
\* recognizer will emit ents for q
extract_entities(q, ents) ==
    /\ started
    /\ pc = "idle"
    /\ request' = [endpoint |-> "extract", query |-> q, ents |-> ents]
    /\ IF ~(q # <<>>)
       THEN /\ response' = [status |-> 400, detail |-> "Query cannot be empty",
                            result |-> None]
            /\ probe' = NoProbe
            /\ UNCHANGED <<globals, locals>>
       ELSE IF model_loaded
       THEN /\ UNCHANGED globals
            /\ response' = NoResponse
            /\ probe' = [loads |-> 0, core |-> TRUE, loaded_at_core |-> model_loaded']
            /\ EnterCore(q, ents)
       ELSE \E outcome \in LoadOutcomes, files \in Mappers :
               LET loading == load_model(outcome, files)
               IN  /\ SetGlobals(loading)
                   /\ IF ~loading.returns
                      THEN /\ response' = [status |-> 503,
                                           detail |-> "Model not available",
                                           result |-> None]
                           /\ probe' = [NoProbe EXCEPT !.loads = 1]
                           /\ UNCHANGED locals
                      ELSE /\ response' = NoResponse
                           /\ probe' = [loads |-> 1, core |-> TRUE,
                                        loaded_at_core |-> model_loaded']
                           /\ EnterCore(q, ents)
    /\ UNCHANGED <<started, ref>>

ExtractEntities ==
    \E q \in ServerQueries, ents \in ServerEnts : extract_entities(q, ents)

\* the call that ends, as a reference for later ones
Taken(answer) ==
    Some([query |-> query, ents |-> request.ents,
          index_mapper |-> index_mapper, option_mapper |-> option_mapper,
          response |-> answer, others |-> FALSE])

\* the reference kept, noting whether a call on other inputs has ended since
Kept ==
    IF IsNone(ref) THEN ref
    ELSE IF Val(ref).query = query /\ Val(ref).ents = request.ents
            /\ Val(ref).index_mapper = index_mapper
            /\ Val(ref).option_mapper = option_mapper
    THEN ref
    ELSE Some([Val(ref) EXCEPT !.others = TRUE])

\* extract_options_data returned: QueryResponse(**result) is the answer
Respond ==
    /\ pc = "returned"
    /\ request.endpoint = "extract"
    /\ response' = [status |-> 200, detail |-> "", result |-> Some(result)]
    /\ ref' \in {Kept, Taken(response')}
    /\ pc' = "idle"
    /\ UNCHANGED <<globals, started, request, probe,
                   query, doc, seen, result, query_lower, stages>>

\* extract_options_data raised: the framework answers 500
RespondError ==
    /\ pc = "raised"
    /\ request.endpoint = "extract"
    /\ response' = [status |-> 500, detail |-> "Internal Server Error", result |-> None]
    /\ ref' \in {Kept, Taken(response')}
    /\ pc' = "idle"
    /\ UNCHANGED <<globals, started, request, probe,
                   query, doc, seen, result, query_lower, stages>>

Next ==
    \/ Startup \/ health_check \/ ExtractEntities
    \/ NextEnt \/ RunFallbacks \/ RunCleanup \/ CleanupRaises \/ RunFinalCheck
    \/ Respond \/ RespondError

Spec == Init /\ [][Next]_vars

(***************************************************************************)
(* Properties                                                              *)
(***************************************************************************)
Ended == pc \in {"returned", "raised"}
AfterLoop == stages[1]
Canonical == {NIFTY50, BANKNIFTY, FINNIFTY, MIDCAPNIFTY, SENSEX}

\* the cues of a lowercased query, stated on the text alone
HasBankCue(ql) == Contains(ql, w_bank \o w_nifty) \/ Contains(ql, w_bank \o SP \o w_nifty)
HasPriorityCue(ql) ==
    \E w \in {w_bank \o w_nifty, w_bank \o SP \o w_nifty, w_fin \o w_nifty,
              w_fin \o SP \o w_nifty, w_midcap, w_sensex} : Contains(ql, w)
HasKeyOf(d, ql) == \E k \in Keys(d) : Contains(ql, k)
\* a run of exactly 4 or 5 digits with no word character on either side
HasStrikeCue(ql) ==
    \E i \in DOMAIN ql, k \in {4, 5} :
        /\ i + k - 1 <= Len(ql)
        /\ \A j \in i..(i + k - 1) : IsDigit(ql[j])
        /\ i = 1 \/ ~IsWordChar(ql[i - 1])
        /\ i + k - 1 = Len(ql) \/ ~IsWordChar(ql[i + k])
HasOptionWord(ql) ==
    \E w \in {w_call, w_put, SP \o w_ce, w_ce \o SP, SP \o w_pe, w_pe \o SP} :
        Contains(ql, w)

\* C1: for every non-empty query, every sequence of spans and any tables,
\* extract_options_data raises no error and returns a record with exactly the
\* fields index, strikePrice, strikeType, also when the spans resolve all
\* three fields and the resolved index contains a space.
C1_NeverRaises ==
    /\ pc # "raised"
    /\ pc = "returned" => DOMAIN result = {"index", "strikePrice", "strikeType"}

\* C2: for every query that matches a template of similar_pattern and every
\* recognizer output, the answer of /extract is the literal triple
\* {NIFTY50, 23600, CE}.
C2_HardOverride ==
    (/\ pc = "idle"
     /\ request.endpoint = "extract"
     /\ probe.core
     /\ similar_pattern(request.query))
    => response = [status |-> 200, detail |-> "",
                   result |-> Some([index |-> Some(NIFTY50),
                                    strikePrice |-> Some(23600),
                                    strikeType |-> Some(CE)])]

\* C3: the returned index is null or one of the five canonical indices and
\* the returned strikeType is null or CE or PE.
C3_CanonicalOrNull ==
    pc = "returned" =>
        /\ IsNone(result.index) \/ Val(result.index) \in Canonical
        /\ IsNone(result.strikeType) \/ Val(result.strikeType) \in {CE, PE}

\* C4: when the lowercased query contains "banknifty" or "bank nifty" and the
\* span loop left the index null or NIFTY50, the call returns and the returned
\* index is BANKNIFTY.
C4_BankNiftyPriority ==
    (/\ Ended
     /\ HasBankCue(Lower(query))
     /\ AfterLoop.index \in {None, Some(NIFTY50)})
    => /\ pc = "returned"
       /\ result.index = Some(BANKNIFTY)

C4_Witness ==
    /\ pc = "returned"
    /\ query = q_prio
    /\ AfterLoop.index = Some(NIFTY50)
    /\ result.index = Some(BANKNIFTY)

\* C5: with the trained mappers, "How is bank nifty 40000 pe doing today?"
\* returns {BANKNIFTY, 40000, PE} when the recognizer emits no span and when
\* it emits ("bank nifty", INDEX), ("40000", STRIKE_PRICE), ("pe", OPTION_TYPE).
E2ESpans ==
    [l \in Labels |->
        IF l = "INDEX" THEN Some(t_bank_nifty)
        ELSE IF l = "STRIKE_PRICE" THEN Some(t_40000)
        ELSE Some(t_pe)]

C5_EndToEnd ==
    (/\ Ended
     /\ query = q_e2e
     /\ <<index_mapper, option_mapper>> = trained_mappers
     /\ seen \in {NoSeen, E2ESpans})
    => /\ pc = "returned"
       /\ result = [index |-> Some(BANKNIFTY), strikePrice |-> Some(40000),
                    strikeType |-> Some(PE)]

C5_Witness ==
    /\ pc = "returned"
    /\ query = q_e2e
    /\ <<index_mapper, option_mapper>> = trained_mappers
    /\ seen = E2ESpans
    /\ AfterLoop.index = Some(NIFTY50)
    /\ result.index = Some(BANKNIFTY)

\* C6: for every query with an index cue, a word-bounded 4-or-5-digit number
\* and an option-table key, and every recognizer output, the call returns a
\* record with all three fields non-null.
HasAllCues ==
    /\ HasPriorityCue(Lower(query)) \/ HasKeyOf(index_mapper, Lower(query))
    /\ HasStrikeCue(Lower(query))
    /\ HasKeyOf(option_mapper, Lower(query))

C6_Complete ==
    (Ended /\ HasAllCues) => (pc = "returned" /\ ~HasNone(result))

\* C7: for a query without any cue and an empty recognizer output the call
\* returns {null, null, null}.
NoCue ==
    /\ ~HasPriorityCue(Lower(query))
    /\ ~HasKeyOf(index_mapper, Lower(query))
    /\ ~HasStrikeCue(Lower(query))
    /\ ~HasKeyOf(option_mapper, Lower(query))
    /\ ~HasOptionWord(Lower(query))

C7_NoCueAllNull ==
    (Ended /\ seen = NoSeen /\ NoCue) => (pc = "returned" /\ result = EmptyResult)

C7_Witness ==
    /\ pc = "returned"
    /\ seen = NoSeen
    /\ query = q_long
    /\ result = EmptyResult

\* C8: two calls of extract_options_data with the same query, spans and tables
\* are answered alike whatever ran in between, and no step of a call changes
\* index_mapper or option_mapper.
SameInputs(call) ==
    /\ call.query = query
    /\ call.ents = request.ents
    /\ call.index_mapper = index_mapper
    /\ call.option_mapper = option_mapper

C8_Deterministic ==
    [][/\ pc # "idle" => UNCHANGED <<index_mapper, option_mapper>>
       /\ (pc # "idle" /\ pc' = "idle" /\ ~IsNone(ref) /\ SameInputs(Val(ref)))
            => response' = Val(ref).response]_vars

C8_Witness ==
    /\ pc = "idle"
    /\ probe.core
    /\ ~IsNone(ref)
    /\ SameInputs(Val(ref))
    /\ Val(ref).response = response
    /\ response.status = 200
    /\ Val(ref).others

\* C9: extract_options_data runs only on a non-empty query with model_loaded
\* true; an empty query is answered 400 with no load_model call; a request
\* that finds the model not loaded and not loadable is answered 503 without
\* a call of the core.
C9_BoundaryGuard ==
    /\ pc # "idle" => (query # <<>> /\ model_loaded /\ probe.core /\ probe.loaded_at_core)
    /\ (request.endpoint = "extract" /\ request.query = <<>>)
         => (response.status = 400 /\ probe.loads = 0 /\ ~probe.core)
    /\ (request.endpoint = "extract" /\ response.status = 503)
         => (~probe.core /\ probe.loads = 1 /\ ~model_loaded /\ pc = "idle")
    /\ (request.endpoint = "extract" /\ request.query # <<>> /\ ~probe.core)
         => response.status = 503

C9_Witness ==
    /\ pc = "ents"
    /\ probe = [loads |-> 1, core |-> TRUE, loaded_at_core |-> TRUE]
    /\ query = q_prio

\* C10: an INDEX span whose lowercased text contains an index-table key leaves
\* the index, after its iteration of the loop, at the value of the first such
\* key in table order.
C10_SubstringRepair ==
    (/\ pc = "ents"
     /\ ~IsNone(seen["INDEX"])
     /\ HasKeyOf(index_mapper, Lower(Val(seen["INDEX"]))))
    => \E i \in DOMAIN index_mapper :
          /\ Contains(Lower(Val(seen["INDEX"])), index_mapper[i][1])
          /\ \A j \in 1..(i - 1) :
                ~Contains(Lower(Val(seen["INDEX"])), index_mapper[j][1])
          /\ result.index = Some(index_mapper[i][2])

C10_Witness ==
    /\ pc = "ents"
    /\ seen["INDEX"] = Some(t_sensex_sd)
    /\ result.index = Some(SENSEX)

\* the runs of exactly k digits of q with no word character on either side
StrikeRuns(q) ==
    {r \in (DOMAIN q) \X {4, 5} :
        /\ r[1] + r[2] - 1 <= Len(q)
        /\ \A j \in r[1]..(r[1] + r[2] - 1) : IsDigit(q[j])
        /\ r[1] = 1 \/ ~IsWordChar(q[r[1] - 1])
        /\ r[1] + r[2] - 1 = Len(q) \/ ~IsWordChar(q[r[1] + r[2]])}
\* the integer written by the leftmost such run, None when q has none
FirstStrikeRun(q) ==
    IF StrikeRuns(q) = {} THEN None
    ELSE LET r == CHOOSE a \in StrikeRuns(q) : \A b \in StrikeRuns(q) : a[1] <= b[1]
         IN  Some(DigitsToInt(SubSeq(q, r[1], r[1] + r[2] - 1)))

\* C11: when no STRIKE_PRICE span produced a value, the call returns and the
\* returned strikePrice is the integer of the leftmost word-bounded run of
\* exactly 4 or 5 digits of the query as given, null when there is no such
\* run; "nifty 17500 pe premium" yields 17500.
C11_StrikeFallback ==
    (Ended /\ IsNone(AfterLoop.strikePrice))
    => /\ pc = "returned"
       /\ result.strikePrice = FirstStrikeRun(query)
       /\ query = q_strike => result.strikePrice = Some(17500)

C11_Witness ==
    /\ pc = "returned"
    /\ query = q_two
    /\ IsNone(AfterLoop.strikePrice)
    /\ ~IsNone(seen["STRIKE_PRICE"])
    /\ result.strikePrice = Some(1750)

\* C12: when no OPTION_TYPE span set strikeType and no key of the option table
\* is a substring of the lowercased query, a query whose lowercased text
\* contains " ce" or "ce " returns strikeType = CE.
C12_OptionHeuristic ==
    (/\ Ended
     /\ IsNone(AfterLoop.strikeType)
     /\ ~HasKeyOf(option_mapper, Lower(query))
     /\ Contains(Lower(query), SP \o w_ce) \/ Contains(Lower(query), w_ce \o SP))
    => /\ pc = "returned"
       /\ result.strikeType = Some(CE)

C12_Witness ==
    /\ pc = "returned"
    /\ query = q_both
    /\ ~HasKeyOf(option_mapper, Lower(query))
    /\ IsNone(AfterLoop.strikeType)
    /\ result.strikeType = Some(CE)

\* C13: with the option table of create_entity_mappers and strikeType unset
\* after the span loop, a query whose lowercased text contains "put" and not
\* "call" returns PE, and one that contains "call" and not "put" returns CE,
\* also when "ce" or "pe" occurs inside another word of the query.
C13_CallPutPrecedence ==
    (/\ Ended
     /\ IsNone(AfterLoop.strikeType)
     /\ option_mapper = default_option_mapper)
    => /\ (Contains(Lower(query), w_put) /\ ~Contains(Lower(query), w_call))
            => result.strikeType = Some(PE)
       /\ (Contains(Lower(query), w_call) /\ ~Contains(Lower(query), w_put))
            => result.strikeType = Some(CE)

\* the priority phrases in the order the claim gives them, with their indices
PhraseOrder == <<
    <<w_bank \o w_nifty, BANKNIFTY>>, <<w_bank \o SP \o w_nifty, BANKNIFTY>>,
    <<w_fin \o w_nifty, FINNIFTY>>, <<w_fin \o SP \o w_nifty, FINNIFTY>>,
    <<w_midcap, MIDCAPNIFTY>>, <<w_midcap \o SP \o w_nifty, MIDCAPNIFTY>>,
    <<w_sensex, SENSEX>> >>
\* the value of the first item of the ordered list whose key is in ql
FirstHit(list, ql) ==
    IF \E i \in DOMAIN list : Contains(ql, list[i][1])
    THEN Some(list[CHOOSE i \in DOMAIN list :
                     /\ Contains(ql, list[i][1])
                     /\ \A j \in 1..(i - 1) : ~Contains(ql, list[j][1])][2])
    ELSE None
IndexByOrder(ql, table) ==
    IF ~IsNone(FirstHit(PhraseOrder, ql)) THEN FirstHit(PhraseOrder, ql)
    ELSE FirstHit(table, ql)

\* C14: when the index is null after the span loop, the first priority phrase
\* in the order banknifty, bank nifty, finnifty, fin nifty, midcap, midcap
\* nifty, sensex that is in the lowercased query fixes the index, also when a
\* key of the index table is in the query; the table is scanned only when no
\* phrase matches, and then its first key in the query fixes the index.
C14_IndexFallbackOrder ==
    (Ended /\ IsNone(AfterLoop.index))
    => /\ pc = "returned"
       /\ stages[2].index = IndexByOrder(Lower(query), index_mapper)
       /\ result.index = IndexByOrder(Lower(query), index_mapper)

C14_Witness ==
    /\ pc = "returned"
    /\ query = q_multi
    /\ IsNone(AfterLoop.index)
    /\ HasKeyOf(index_mapper, Lower(query))
    /\ result.index = Some(BANKNIFTY)

\* the cues of the corrector in the order the claim gives them
CorrectorOrder == <<
    <<w_bank \o w_nifty, BANKNIFTY>>, <<w_bank \o SP \o w_nifty, BANKNIFTY>>,
    <<w_fin \o w_nifty, FINNIFTY>>, <<w_fin \o SP \o w_nifty, FINNIFTY>>,
    <<w_midcap, MIDCAPNIFTY>>, <<w_sensex, SENSEX>> >>

\* C15: when the index is NIFTY50 after the span loop and the fallbacks and the
\* lowercased query contains a more specific cue, the returned index is that
\* of the first matching check in the order BANKNIFTY, FINNIFTY, MIDCAPNIFTY,
\* SENSEX; later cues in the query have no effect.
C15_DefaultOverrideOrder ==
    (/\ Ended
     /\ stages[2].index = Some(NIFTY50)
     /\ ~IsNone(FirstHit(CorrectorOrder, Lower(query))))
    => /\ pc = "returned"
       /\ result.index = FirstHit(CorrectorOrder, Lower(query))

C15_Witness ==
    /\ pc = "returned"
    /\ query = q_multi
    /\ stages[2].index = Some(NIFTY50)
    /\ result.index = Some(BANKNIFTY)

\* C16: when the index after the span loop and the fallbacks contains a space,
\* whether or not the other two fields were set by spans, the call returns;
\* the returned index is that of the first priority phrase in the lowercased
\* query, and it is the spaced value itself when neither a priority phrase nor
\* a key of the index table is in the query.
C16_SpacedIndexRepair ==
    (/\ Ended
     /\ ~IsNone(stages[2].index)
     /\ Contains(Val(stages[2].index), SP))
    => /\ pc = "returned"
       /\ ~IsNone(FirstHit(PhraseOrder, Lower(query)))
            => result.index = FirstHit(PhraseOrder, Lower(query))
       /\ (IsNone(FirstHit(PhraseOrder, Lower(query)))
           /\ ~HasKeyOf(index_mapper, Lower(query)))
            => result.index = stages[2].index

HasDigit(t) == \E i \in DOMAIN t : IsDigit(t[i])
LastWritten(l, t) ==
    IF l = "INDEX"
    THEN result' = [result EXCEPT !.index = Some(ResolveIndexEnt(t, index_mapper))]
    ELSE IF l = "OPTION_TYPE"
    THEN result' = [result EXCEPT !.strikeType = Some(ResolveOptionEnt(t, option_mapper))]
    ELSE IF HasDigit(t)
    THEN result' = [result EXCEPT !.strikePrice = Some(DigitsToInt(JoinDigitRuns(t)))]
    ELSE result' = result

\* C18: in the span loop the value of a field is the one derived from the last
\* span of its label, whatever the earlier spans of that label were; a
\* STRIKE_PRICE span without a digit leaves the earlier strikePrice in place.
C18_LastWriteWins ==
    [][(pc = "ents" /\ pc' = "ents")
        => \A l \in Labels : seen'[l] # seen[l] => LastWritten(l, Val(seen'[l]))]_vars

C18_Witness ==
    /\ pc = "returned"
    /\ seen = [l \in Labels |->
                 IF l = "INDEX" THEN Some(t_bank_nifty) ELSE Some(t_pe)]
    /\ AfterLoop = [index |-> Some(NIFTY50), strikePrice |-> Some(17500),
                    strikeType |-> Some(PE)]

\* a query made of the phrase, a strike and an option word
PhraseStrikeOption(phrase, q) ==
    \E strike \in {t_40000, <<"3", "5", "0", "0", "0">>}, word \in {w_pe, w_put} :
        q = phrase \o SP \o strike \o SP \o word

\* C19: with the index table of create_entity_mappers, an INDEX span whose
\* lowercased text is a key k of the table, in a query made of that phrase, a
\* strike and an option word, returns the index the table gives for k.
C19_ExactKey ==
    (/\ Ended
     /\ index_mapper = default_index_mapper
     /\ ~IsNone(seen["INDEX"])
     /\ Lower(Val(seen["INDEX"])) \in Keys(default_index_mapper)
     /\ PhraseStrikeOption(Val(seen["INDEX"]), query))
    => /\ pc = "returned"
       /\ result.index = Some(Get(default_index_mapper, Lower(Val(seen["INDEX"]))))

\* C20: when the call returns the index NIFTY50, the lowercased query contains
\* none of "banknifty", "bank nifty", "finnifty", "fin nifty", "midcap",
\* "sensex".
C20_Nifty50PostCondition ==
    (pc = "returned" /\ result.index = Some(NIFTY50))
    => \A cue \in {w_bank \o w_nifty, w_bank \o SP \o w_nifty, w_fin \o w_nifty,
                   w_fin \o SP \o w_nifty, w_midcap, w_sensex} :
          ~Contains(Lower(query), cue)

C20_Witness ==
    /\ pc = "returned"
    /\ query = q_niftybank
    /\ seen["INDEX"] = Some(t_nifty_bank)
    /\ stages[3].index = Some(NIFTY50)
    /\ result.index = Some(NIFTY50)

\* every phrase of the variation dictionary, lowercased, is a key of the table
\* and maps to its canonical value
Covers(table, variations) ==
    \A i \in DOMAIN variations : \A j \in DOMAIN variations[i][2] :
        /\ Lower(variations[i][2][j]) \in Keys(table)
        /\ Get(table, Lower(variations[i][2][j])) = variations[i][1]

\* C21: when the mappers loaded are those create_entity_mappers returns for
\* the variation dictionaries of create_training_data, every variation phrase
\* of every canonical index and option value, the SENSEX phrases included, is a
\* key of its table with its canonical value, and the index table has a key
\* for each of the five canonical indices.
C21_TableCoverage ==
    (/\ model_loaded
     /\ <<index_mapper, option_mapper>>
          = create_entity_mappers(index_variations, option_variations))
    => /\ Covers(index_mapper, index_variations)
       /\ Covers(option_mapper, option_variations)
       /\ \A c \in Canonical : \E k \in DOMAIN index_mapper : index_mapper[k][2] = c

\* the recognizer model and both tables are loaded, the tables from one
\* models/spacy directory
AllLoaded ==
    /\ ~IsNone(spacy_model)
    /\ \E files \in Mappers : <<index_mapper, option_mapper>> = files

\* what holds in every state: model_loaded only with all three loaded; a
\* load_model call made now that returns False would leave model_loaded as it
\* is; the last /health answer is "healthy" with model_loaded and 503 without
LoadState ==
    /\ model_loaded => AllLoaded
    /\ \A outcome \in LoadOutcomes, files \in Mappers :
          ~load_model(outcome, files).returns
            => load_model(outcome, files).model_loaded = model_loaded
    /\ request.endpoint = "health" =>
          IF model_loaded
          THEN response.status = 200 /\ response.detail = "healthy"
          ELSE response.status = 503

\* C22: after any sequence of startup, /health and /extract events with any
\* missing file or load error, model_loaded is true only when the recognizer
\* model and both tables are loaded; a load_model call that returns False
\* leaves model_loaded false (an /extract answered 503 included); model_loaded
\* never goes from true to false; /health answers "healthy" exactly when
\* model_loaded is true and 503 otherwise.
C22_LoadState ==
    /\ [](LoadState)
    /\ [][/\ model_loaded => model_loaded'
          /\ (request'.endpoint = "extract" /\ response'.status = 503)
               => ~model_loaded']_vars

C22_Witness ==
    /\ model_loaded
    /\ <<index_mapper, option_mapper>> = other_mappers
    /\ request.endpoint = "health"
    /\ response.status = 200
    /\ ~IsNone(ref)

====
